---- MODULE Spec2Model ----
(***************************************************************************)
(* Model of the jujushell configuration package: Read (open, read, decode, *)
(* validate, deferred close) and validate, in its two schema variants:     *)
(*   "extended"  src/config/config.go                                      *)
(*   "minimal"   src/unnamed/part_000                                      *)
(* A YAML document is a mapping from keys to tagged nodes; a Go string     *)
(* built by strings.Join is the sequence of its pieces; a Go error is the  *)
(* chain of its messages, outermost first, and nil is the empty chain.     *)
(***************************************************************************)
EXTENDS Integers, Sequences, FiniteSets, TLC

VARIABLES variant, pc, path, fopen, data, config, err, ret, calls

vars == <<variant, pc, path, fopen, data, config, err, ret, calls>>

\* ------------------------------------------------------------------ bounds

\* Longest list a document gives for juju-addrs, profiles or allowed-users.
MaxListLen == 1

\* ------------------------------------------------------- program constants

\* The only port Let's Encrypt can be used with.
LetsEncryptPort == 443

Variants == {"extended", "minimal"}

\* The yaml keys of the Config struct of each variant, in declaration order.
ExtendedKeys ==
    <<"allowed-users", "dns-name", "image-name", "juju-addrs", "juju-cert",
      "log-level", "lxd-socket-path", "port", "profiles", "session-timeout",
      "tls-cert", "tls-key", "welcome-message">>

MinimalKeys ==
    <<"image-name", "juju-addrs", "juju-cert", "log-level", "port",
      "tls-cert", "tls-key">>

Range(s) == {s[i] : i \in 1..Len(s)}

Keys(v) == IF v = "extended" THEN Range(ExtendedKeys) ELSE Range(MinimalKeys)

\* The Go kind of the struct field behind each key, as the yaml tag a node
\* must carry to be decoded into it.
KindOf(k) ==
    CASE k \in {"allowed-users", "juju-addrs", "profiles"} -> "seq"
      [] k \in {"port", "session-timeout"} -> "int"
      [] OTHER -> "str"

\* zapcore.Level of a level name; the zero value is the info level.
LevelOf(text) ==
    CASE text = "debug" -> -1
      [] text = "info" -> 0
      [] text = "warn" -> 1
      [] OTHER -> 2

\* The zero value of `var config Config`.
ZeroConfig(v) ==
    IF v = "extended"
    THEN [AllowedUsers |-> <<>>, DNSName |-> "", ImageName |-> "",
          JujuAddrs |-> <<>>, JujuCert |-> "", LogLevel |-> 0,
          LXDSocketPath |-> "", Port |-> 0, Profiles |-> <<>>,
          SessionTimeout |-> 0, TLSCert |-> "", TLSKey |-> "",
          WelcomeMessage |-> ""]
    ELSE [ImageName |-> "", JujuAddrs |-> <<>>, JujuCert |-> "",
          LogLevel |-> 0, Port |-> 0, TLSCert |-> "", TLSKey |-> ""]

\* ------------------------------------------------------------------ errors

\* errgo.New / errgo.Newf / fmt.Errorf: a fresh error with one message.
NewError(format, args) == <<[fmt |-> format, arg |-> args]>>

\* errgo.Notef(cause, format, path): the cause with a message put in front.
Notef(cause, format, p) == <<[fmt |-> format, arg |-> <<p>>]>> \o cause

\* strings.Join(elems, sep): the pieces of the joined string.
RECURSIVE Join(_, _)
Join(elems, sep) ==
    IF Len(elems) = 0 THEN <<>>
    ELSE IF Len(elems) = 1 THEN <<elems[1]>>
    ELSE <<elems[1], sep>> \o Join(Tail(elems), sep)

\* --------------------------------------------------------------- documents

\* A yaml node: a scalar or a sequence, with the tag the parser resolves.
StrNode(s) == [tag |-> "str", val |-> s]

IntNode(n) == [tag |-> "int", val |-> n]

SeqNode(l) == [tag |-> "seq", val |-> l]

\* A key of a document is absent (<<>>) or holds one node.
Opt(S) == {<<>>} \cup {<<x>> : x \in S}

\* The lists of 1..MaxListLen items a document can give.
Lists(item) == {[i \in 1..n |-> item] : n \in 1..MaxListLen}

StrOpts(s) == Opt({StrNode(s)})

SeqOpts(item) == Opt({SeqNode(l) : l \in Lists(item)})

\* A port is absent, an integer, or text that is no integer.
PortOpts == Opt({IntNode(-1), IntNode(LetsEncryptPort), IntNode(8080), StrNode("http")})

TimeoutOpts == Opt({IntNode(-1), IntNode(0), IntNode(30)})

\* The well-formed documents over the keys of the minimal variant.
MinimalDocs ==
    { [wellformed |-> TRUE,
       nodes |-> [k \in Range(ExtendedKeys) |->
          CASE k = "image-name" -> image
            [] k = "juju-addrs" -> addrs
            [] k = "juju-cert" -> cert
            [] k = "log-level" -> level
            [] k = "port" -> port
            [] k = "tls-cert" -> tlscert
            [] k = "tls-key" -> tlskey
            [] OTHER -> <<>>]] :
       image \in StrOpts("ubuntu"), addrs \in SeqOpts("1.2.3.4:17070"),
       cert \in StrOpts("ca-cert"), level \in StrOpts("debug"),
       port \in PortOpts, tlscert \in StrOpts("cert"), tlskey \in StrOpts("key") }

\* The well-formed documents over the keys of the extended variant.
ExtendedDocs ==
    { [wellformed |-> TRUE,
       nodes |-> [k \in Range(ExtendedKeys) |->
          CASE k = "allowed-users" -> users
            [] k = "dns-name" -> dns
            [] k = "lxd-socket-path" -> lxd
            [] k = "profiles" -> profiles
            [] k = "session-timeout" -> timeout
            [] k = "welcome-message" -> welcome
            [] OTHER -> d.nodes[k]]] :
       d \in MinimalDocs, users \in SeqOpts("admin"),
       dns \in StrOpts("shell.example.com"),
       lxd \in StrOpts("/var/lib/lxd/unix.socket"),
       profiles \in SeqOpts("default"), timeout \in TimeoutOpts,
       welcome \in StrOpts("hello") }

\* A document that is no yaml at all.
MalformedDoc == [wellformed |-> FALSE, nodes |-> [k \in Range(ExtendedKeys) |-> <<>>]]

Docs(v) == (IF v = "extended" THEN ExtendedDocs ELSE MinimalDocs) \cup {MalformedDoc}

\* ---------------------------------------------------------------- decoding

\* The node of key k, when the document has one of the kind the field takes.
Decodable(d, k) == d.nodes[k] # <<>> /\ d.nodes[k][1].tag = KindOf(k)

\* The keys whose node cannot be decoded into the field (a yaml TypeError).
TypeErrors(d, v) == {k \in Keys(v) : d.nodes[k] # <<>> /\ d.nodes[k][1].tag # KindOf(k)}

\* The value a field gets: the node's, or the zero value when the key is
\* absent or its node was refused.
StrField(d, k) == IF Decodable(d, k) THEN d.nodes[k][1].val ELSE ""

IntField(d, k) == IF Decodable(d, k) THEN d.nodes[k][1].val ELSE 0

SeqField(d, k) == IF Decodable(d, k) THEN d.nodes[k][1].val ELSE <<>>

LevelField(d, k) == IF Decodable(d, k) THEN LevelOf(d.nodes[k][1].val) ELSE 0

\* yaml.Unmarshal(data, &config) on a zero Config: the config it leaves and
\* the error it returns. Keys that are no field of the struct are ignored.
Unmarshal(d, v) ==
    IF ~d.wellformed
    THEN [config |-> ZeroConfig(v), err |-> NewError("yaml: syntax error", <<>>)]
    ELSE [config |->
            IF v = "extended"
            THEN [AllowedUsers |-> SeqField(d, "allowed-users"),
                  DNSName |-> StrField(d, "dns-name"),
                  ImageName |-> StrField(d, "image-name"),
                  JujuAddrs |-> SeqField(d, "juju-addrs"),
                  JujuCert |-> StrField(d, "juju-cert"),
                  LogLevel |-> LevelField(d, "log-level"),
                  LXDSocketPath |-> StrField(d, "lxd-socket-path"),
                  Port |-> IntField(d, "port"),
                  Profiles |-> SeqField(d, "profiles"),
                  SessionTimeout |-> IntField(d, "session-timeout"),
                  TLSCert |-> StrField(d, "tls-cert"),
                  TLSKey |-> StrField(d, "tls-key"),
                  WelcomeMessage |-> StrField(d, "welcome-message")]
            ELSE [ImageName |-> StrField(d, "image-name"),
                  JujuAddrs |-> SeqField(d, "juju-addrs"),
                  JujuCert |-> StrField(d, "juju-cert"),
                  LogLevel |-> LevelField(d, "log-level"),
                  Port |-> IntField(d, "port"),
                  TLSCert |-> StrField(d, "tls-cert"),
                  TLSKey |-> StrField(d, "tls-key")],
          err |-> IF TypeErrors(d, v) = {} THEN <<>>
                  ELSE NewError("yaml: unmarshal errors", <<>>)]

\* -------------------------------------------------------------- validation

\* Mutant: the socket path is checked last instead of third.
MissingExtendedSocketLast(c) ==
    (IF c.ImageName = "" THEN <<"image-name">> ELSE <<>>)
    \o (IF Len(c.JujuAddrs) = 0 THEN <<"juju-addrs">> ELSE <<>>)
    \o (IF c.Port <= 0 THEN <<"port">> ELSE <<>>)
    \o (IF Len(c.Profiles) = 0 THEN <<"profiles">> ELSE <<>>)
    \o (IF c.LXDSocketPath = "" THEN <<"lxd-socket-path">> ELSE <<>>)

\* The names validate of the extended variant appends to `missing`.
MissingExtended(c) ==
    (IF c.ImageName = "" THEN <<"image-name">> ELSE <<>>)
    \o (IF Len(c.JujuAddrs) = 0 THEN <<"juju-addrs">> ELSE <<>>)
    \o (IF c.LXDSocketPath = "" THEN <<"lxd-socket-path">> ELSE <<>>)
    \o (IF c.Port <= 0 THEN <<"port">> ELSE <<>>)
    \o (IF Len(c.Profiles) = 0 THEN <<"profiles">> ELSE <<>>)

\* Mutant: the CA certificate is not checked.
MissingMinimalNoCert(c) ==
    (IF c.ImageName = "" THEN <<"image-name">> ELSE <<>>)
    \o (IF Len(c.JujuAddrs) = 0 THEN <<"juju-addrs">> ELSE <<>>)
    \o (IF c.Port <= 0 THEN <<"port">> ELSE <<>>)

\* The names validate of the minimal variant appends to `missing`.
MissingMinimal(c) ==
    (IF c.ImageName = "" THEN <<"image-name">> ELSE <<>>)
    \o (IF Len(c.JujuAddrs) = 0 THEN <<"juju-addrs">> ELSE <<>>)
    \o (IF c.JujuCert = "" THEN <<"juju-cert">> ELSE <<>>)
    \o (IF c.Port <= 0 THEN <<"port">> ELSE <<>>)

\* The condition of the Let's Encrypt block, and the three conditions that
\* make validate of the extended variant return an error after `missing`.
\* Mutant: the block is entered when no DNS name is set.
UsesLetsEncryptInverted(c) == c.DNSName = ""

UsesLetsEncrypt(c) == c.DNSName # ""

\* Mutant: only a complete pair of TLS keys conflicts.
HasBothTLSKeys(c) == c.TLSCert # "" /\ c.TLSKey # ""

HasTLSKeys(c) == c.TLSCert # "" \/ c.TLSKey # ""

\* Mutant: only ports below 443 are refused.
PortBelow(c) == c.Port < LetsEncryptPort

WrongPort(c) == c.Port # LetsEncryptPort

\* Mutant: a zero timeout is refused too.
NonPositiveTimeout(c) == c.SessionTimeout <= 0

NegativeTimeout(c) == c.SessionTimeout < 0

ErrMissingExtended == "missing fields: %s"

ErrMissingMinimal == "missing fields %s"

ErrTLSConflict ==
    "cannot specify both DNS name for Let's Encrypt and TLS keys at the same time"

ErrPort == "cannot use a port different than 443 with Let's Encrypt"

ErrTimeout == "cannot specify a negative session timeout"

\* Mutant: the timeout is checked before the Let's Encrypt block.
validateExtendedTimeoutFirst(c) ==
    IF Len(MissingExtended(c)) # 0
    THEN NewError(ErrMissingExtended, Join(MissingExtended(c), ", "))
    ELSE IF NegativeTimeout(c) THEN NewError(ErrTimeout, <<>>)
    ELSE IF UsesLetsEncrypt(c) /\ HasTLSKeys(c) THEN NewError(ErrTLSConflict, <<>>)
    ELSE IF UsesLetsEncrypt(c) /\ WrongPort(c) THEN NewError(ErrPort, <<>>)
    ELSE <<>>

\* validate of the extended variant: nil, or the first error in its order.
validateExtended(c) ==
    IF Len(MissingExtended(c)) # 0
    THEN NewError(ErrMissingExtended, Join(MissingExtended(c), ", "))
    ELSE IF UsesLetsEncrypt(c) /\ HasTLSKeys(c) THEN NewError(ErrTLSConflict, <<>>)
    ELSE IF UsesLetsEncrypt(c) /\ WrongPort(c) THEN NewError(ErrPort, <<>>)
    ELSE IF NegativeTimeout(c) THEN NewError(ErrTimeout, <<>>)
    ELSE <<>>

\* validate of the minimal variant.
validateMinimal(c) ==
    IF Len(MissingMinimal(c)) # 0
    THEN NewError(ErrMissingMinimal, Join(MissingMinimal(c), ", "))
    ELSE <<>>

validate(c, v) == IF v = "extended" THEN validateExtended(c) ELSE validateMinimal(c)

\* -------------------------------------------------------------------- Read

\* The paths Read is called with.
Paths == {"/etc/jujushell/config.yaml", "config.yaml"}

\* The errors os.Open and ioutil.ReadAll can return.
OpenErrors ==
    {NewError("no such file or directory", <<>>), NewError("permission denied", <<>>)}

ReadErrors == {NewError("input/output error", <<>>)}

\* The pair Read returns: a pointer to a Config (<<>> is nil) and an error.
Result(c, e) == [config |-> c, err |-> e]

NoResult == Result(<<>>, <<>>)

\* Read has been called with `path` and has run nothing yet.
Init ==
    /\ variant \in Variants
    /\ path \in Paths
    /\ pc = "open"
    /\ fopen = FALSE
    /\ data = <<>>
    /\ config = ZeroConfig(variant)
    /\ err = <<>>
    /\ ret = NoResult
    /\ calls = <<>>

\* f, err := os.Open(path), and the return on its error.
Open ==
    /\ pc = "open"
    /\ calls' = Append(calls, "os.Open")
    /\ \E e \in {<<>>} \cup OpenErrors :
          /\ err' = e
          /\ IF e # <<>>
             THEN /\ ret' = Result(<<>>, Notef(e, "cannot open %q", path))
                  /\ pc' = "done"
                  /\ fopen' = FALSE
             ELSE /\ ret' = ret
                  /\ pc' = "read"
                  /\ fopen' = TRUE
    /\ UNCHANGED <<variant, path, data, config>>

\* data, err := ioutil.ReadAll(f), and the return on its error; the file
\* holds any of the documents.
ReadAll ==
    /\ pc = "read"
    /\ calls' = Append(calls, "ioutil.ReadAll")
    /\ \/ \E d \in Docs(variant) :
             /\ data' = <<d>>
             /\ err' = <<>>
             /\ ret' = ret
             /\ pc' = "parse"
       \/ \E e \in ReadErrors :
             /\ data' = <<>>
             /\ err' = e
             /\ ret' = Result(<<>>, Notef(e, "cannot read %q", path))
             /\ pc' = "close"
    /\ UNCHANGED <<variant, path, fopen, config>>

\* err = yaml.Unmarshal(data, &config), and the return on its error.
Parse ==
    /\ pc = "parse"
    /\ calls' = Append(calls, "yaml.Unmarshal")
    /\ config' = Unmarshal(data[1], variant).config
    /\ err' = Unmarshal(data[1], variant).err
    /\ IF err' # <<>>
       THEN /\ ret' = Result(<<>>, Notef(err', "cannot parse %q", path))
            /\ pc' = "close"
       ELSE /\ ret' = ret
            /\ pc' = "validate"
    /\ UNCHANGED <<variant, path, fopen, data>>

\* Mutant: the configuration is handed back without its log level.
ValidatedWithoutLevel(c, e, p) ==
    IF e # <<>>
    THEN Result(<<>>, Notef(e, "invalid configuration at %q", p))
    ELSE Result(<<[c EXCEPT !.LogLevel = 0]>>, <<>>)

\* Mutant: the configuration is handed back beside the validation error.
ValidatedPartial(c, e, p) ==
    IF e # <<>>
    THEN Result(<<c>>, Notef(e, "invalid configuration at %q", p))
    ELSE Result(<<c>>, <<>>)

\* What Read returns once validate(config) has returned e.
Validated(c, e, p) ==
    IF e # <<>>
    THEN Result(<<>>, Notef(e, "invalid configuration at %q", p))
    ELSE Result(<<c>>, <<>>)

\* err := validate(config), and the two returns that follow it.
Validate ==
    /\ pc = "validate"
    /\ calls' = Append(calls, "validate")
    /\ err' = validate(config, variant)
    /\ ret' = Validated(config, err', path)
    /\ pc' = "close"
    /\ UNCHANGED <<variant, path, fopen, data, config>>

\* Mutant: Read returns without closing the file.
ReturnWithoutClose ==
    /\ pc = "close"
    /\ pc' = "done"
    /\ UNCHANGED <<variant, path, fopen, data, config, err, ret, calls>>

\* The deferred f.Close(), run when Read returns after a successful Open.
DeferredClose ==
    /\ pc = "close"
    /\ calls' = Append(calls, "f.Close")
    /\ fopen' = FALSE
    /\ pc' = "done"
    /\ UNCHANGED <<variant, path, data, config, err, ret>>

Next == Open \/ ReadAll \/ Parse \/ Validate \/ DeferredClose

Spec == Init /\ [][Next]_vars

\* ------------------------------------------------------------------ claims

\* validate has been called and has returned: `config` is its argument and
\* `err` what it returned.
ValidateRan == Len(calls) >= 4 /\ calls[4] = "validate"

\* The required fields of each variant, in the order validate checks them.
RequiredFields(v) ==
    IF v = "extended"
    THEN <<"image-name", "juju-addrs", "lxd-socket-path", "port", "profiles">>
    ELSE <<"image-name", "juju-addrs", "juju-cert", "port">>

\* The required field of this name is empty in c.
IsEmptyField(c, name) ==
    CASE name = "image-name" -> c.ImageName = ""
      [] name = "juju-addrs" -> c.JujuAddrs = <<>>
      [] name = "juju-cert" -> c.JujuCert = ""
      [] name = "lxd-socket-path" -> c.LXDSocketPath = ""
      [] name = "port" -> ~(c.Port > 0)
      [] name = "profiles" -> c.Profiles = <<>>

\* The empty required fields of c, each once, in the check order.
EmptyRequired(c, v) == SelectSeq(RequiredFields(v), LAMBDA name : IsEmptyField(c, name))

\* The names a joined list shows, and whether ", " separates them.
ListedNames(pieces) == [i \in 1..((Len(pieces) + 1) \div 2) |-> pieces[2 * i - 1]]

WellSeparated(pieces) ==
    /\ Len(pieces) % 2 = 1
    /\ \A i \in 1..Len(pieces) : i % 2 = 0 => pieces[i] = ", "

\* C1: when at least one required field of the variant is empty, validate
\* returns the missing-fields error, and the names it lists are exactly the
\* empty required fields, each once, in the check order, whatever dns-name,
\* tls-cert, tls-key and session-timeout are.
C1_MissingFieldsExact ==
    (ValidateRan /\ EmptyRequired(config, variant) # <<>>) =>
        /\ Len(err) = 1
        /\ err[1].fmt = (IF variant = "extended" THEN "missing fields: %s"
                                                 ELSE "missing fields %s")
        /\ WellSeparated(err[1].arg)
        /\ ListedNames(err[1].arg) = EmptyRequired(config, variant)

\* Several fields are missing while every cross-field rule is broken too.
C1_Witness ==
    /\ pc = "done"
    /\ ValidateRan
    /\ variant = "extended"
    /\ EmptyRequired(config, variant) = <<"juju-addrs", "port", "profiles">>
    /\ config.DNSName # ""
    /\ config.TLSCert # ""
    /\ config.SessionTimeout < 0

\* The DNS name of a configuration; the minimal variant has none.
DNSNameOf(c, v) == IF v = "extended" THEN c.DNSName ELSE ""

\* The session timeout of a configuration; the minimal variant has none.
TimeoutOf(c, v) == IF v = "extended" THEN c.SessionTimeout ELSE 0

\* C2 as stated: with every required field populated and no DNS name set,
\* validate succeeds and Read hands back the decoded configuration unchanged.
C2_Original ==
    (pc = "done" /\ ValidateRan /\ EmptyRequired(config, variant) = <<>>
        /\ DNSNameOf(config, variant) = "") =>
        /\ err = <<>>
        /\ ret = Result(<<Unmarshal(data[1], variant).config>>, <<>>)

\* C2 amended: with every required field populated, no DNS name set and a
\* session timeout that is not negative, validate succeeds and Read hands
\* back a configuration whose every field is the decoded input's.
C2_IdentityOnValid ==
    (pc = "done" /\ ValidateRan /\ EmptyRequired(config, variant) = <<>>
        /\ DNSNameOf(config, variant) = "" /\ TimeoutOf(config, variant) >= 0) =>
        /\ err = <<>>
        /\ ret = Result(<<Unmarshal(data[1], variant).config>>, <<>>)

C2_Witness ==
    /\ pc = "done"
    /\ variant = "extended"
    /\ ret.err = <<>>
    /\ ret.config # <<>>
    /\ ret.config[1].DNSName = ""
    /\ ret.config[1].Port = 8080
    /\ ret.config[1].SessionTimeout = 30
    /\ ret.config[1].TLSCert # ""
    /\ ret.config[1].AllowedUsers # <<>>

\* C3: in the extended variant, with every required field populated,
\* validate returns the DNS-name/TLS-keys conflict if and only if dns-name
\* is set and tls-cert or tls-key is set.
C3_ConflictIff ==
    (ValidateRan /\ variant = "extended" /\ EmptyRequired(config, variant) = <<>>) =>
        ((err = NewError(ErrTLSConflict, <<>>))
            <=> (config.DNSName # "" /\ (config.TLSCert # "" \/ config.TLSKey # "")))

\* Only the key is given beside the DNS name, and the port is wrong too.
C3_Witness ==
    /\ ValidateRan
    /\ variant = "extended"
    /\ config.DNSName # ""
    /\ config.TLSCert = ""
    /\ config.TLSKey # ""
    /\ config.Port = 8080
    /\ err = NewError(ErrTLSConflict, <<>>)

\* C4 as stated: in the extended variant validate returns the port error
\* whenever dns-name is set and port is not 443.
C4_Original ==
    (ValidateRan /\ variant = "extended" /\ config.DNSName # "" /\ config.Port # 443) =>
        err = NewError(ErrPort, <<>>)

\* C4 amended: it does so whenever, besides, no required field is empty and
\* tls-cert and tls-key are both empty.
C4_PortMismatch ==
    (ValidateRan /\ variant = "extended" /\ config.DNSName # "" /\ config.Port # 443
        /\ EmptyRequired(config, variant) = <<>>
        /\ config.TLSCert = "" /\ config.TLSKey = "") =>
        err = NewError(ErrPort, <<>>)

C4_Witness ==
    /\ ValidateRan
    /\ variant = "extended"
    /\ config.DNSName # ""
    /\ config.Port = 8080
    /\ err = NewError(ErrPort, <<>>)
    /\ ret.config = <<>>

\* One of the two Let's Encrypt rules is broken.
BreaksLetsEncrypt(c) ==
    c.DNSName # "" /\ (c.TLSCert # "" \/ c.TLSKey # "" \/ c.Port # 443)

\* C5 as stated: in the extended variant validate returns the timeout error
\* if and only if session-timeout is strictly negative.
C5_Original ==
    (ValidateRan /\ variant = "extended") =>
        ((err = NewError(ErrTimeout, <<>>)) <=> config.SessionTimeout < 0)

\* C5 amended: it returns the timeout error if and only if session-timeout
\* is strictly negative, no required field is empty and no Let's Encrypt
\* rule is broken; a session-timeout of 0 never gets the timeout error.
C5_NegativeTimeout ==
    (ValidateRan /\ variant = "extended") =>
        ((err = NewError(ErrTimeout, <<>>))
            <=> (/\ config.SessionTimeout < 0
                 /\ EmptyRequired(config, variant) = <<>>
                 /\ ~BreaksLetsEncrypt(config)))

C5_Witness ==
    /\ pc = "done"
    /\ ValidateRan
    /\ variant = "extended"
    /\ config.SessionTimeout = -1
    /\ config.DNSName # ""
    /\ err = NewError(ErrTimeout, <<>>)
    /\ ret.config = <<>>

\* C6: every configuration Read of the extended variant returns without
\* error has an image name, an address, a positive port, a profile, a
\* socket path, a timeout that is not negative and, with a DNS name, no TLS
\* keys and port 443.
C6_ReturnedConfigValid ==
    (pc = "done" /\ variant = "extended" /\ ret.err = <<>>) =>
        /\ Len(ret.config) = 1
        /\ ret.config[1].ImageName # ""
        /\ Len(ret.config[1].JujuAddrs) >= 1
        /\ ret.config[1].Port > 0
        /\ Len(ret.config[1].Profiles) >= 1
        /\ ret.config[1].LXDSocketPath # ""
        /\ ret.config[1].SessionTimeout >= 0
        /\ ret.config[1].DNSName # "" =>
              /\ ret.config[1].TLSCert = ""
              /\ ret.config[1].TLSKey = ""
              /\ ret.config[1].Port = 443

C6_Witness ==
    /\ pc = "done"
    /\ variant = "extended"
    /\ ret.err = <<>>
    /\ Len(ret.config) = 1
    /\ ret.config[1].DNSName # ""
    /\ ret.config[1].SessionTimeout = 0

\* C7 as stated: every configuration validate accepts, in either variant,
\* has an address and a CA certificate.
C7_Original ==
    (ValidateRan /\ err = <<>>) =>
        /\ Len(config.JujuAddrs) >= 1
        /\ config.JujuCert # ""

\* C7 amended: every configuration validate accepts has an address, and in
\* the minimal variant a CA certificate as well.
C7_UpstreamController ==
    (ValidateRan /\ err = <<>>) =>
        /\ Len(config.JujuAddrs) >= 1
        /\ variant = "minimal" => config.JujuCert # ""

C7_Witness ==
    /\ pc = "done"
    /\ ValidateRan
    /\ variant = "minimal"
    /\ err = <<>>
    /\ ret.config = <<config>>
    /\ config.JujuCert # ""

\* The four stages of Read, in order, and those that have run so far.
Stages == <<"os.Open", "ioutil.ReadAll", "yaml.Unmarshal", "validate">>

StagesRun == SelectSeq(calls, LAMBDA call : call # "f.Close")

\* C8: the stages run in the order open, read, decode, validate, each at
\* most once; a stage runs only after every earlier one succeeded; once a
\* stage has failed Read returns nil and an error that names the path and
\* wraps the failure; Read returns a configuration, with a nil error, exactly
\* when all four stages have run and succeeded.
C8_AllOrNothing ==
    /\ StagesRun = SubSeq(Stages, 1, Len(StagesRun))
    /\ pc \in {"open", "read", "parse", "validate"} =>
          /\ err = <<>>
          /\ ret = NoResult
          /\ Len(StagesRun) = (CASE pc = "open" -> 0 [] pc = "read" -> 1
                                 [] pc = "parse" -> 2 [] pc = "validate" -> 3)
    /\ (pc \in {"close", "done"} /\ err # <<>>) =>
          /\ ret.config = <<>>
          /\ Len(ret.err) >= 2
          /\ ret.err[1].arg = <<path>>
          /\ Tail(ret.err) = err
    /\ (pc \in {"close", "done"} /\ err = <<>>) =>
          /\ StagesRun = Stages
          /\ ret = Result(<<config>>, <<>>)
    /\ pc = "done" => (ret.config # <<>> <=> ret.err = <<>>)

\* The decode stage failed: validate never ran and nothing is returned.
C8_Witness ==
    /\ pc = "done"
    /\ StagesRun = <<"os.Open", "ioutil.ReadAll", "yaml.Unmarshal">>
    /\ config.ImageName # ""
    /\ ret.config = <<>>
    /\ ret.err[1] = [fmt |-> "cannot parse %q", arg |-> <<path>>]

\* The number of calls of f.Close so far.
Closes == Len(SelectSeq(calls, LAMBDA call : call = "f.Close"))

\* C9: once Open has succeeded the stream stays open until Read returns, so
\* through the whole read stage, and it is released, once, as the last thing
\* Read does on every path: no state after the return has it open.
C9_StreamReleased ==
    /\ pc \in {"read", "parse", "validate", "close"} => (fopen /\ Closes = 0)
    /\ pc = "done" => ~fopen
    /\ (pc = "done" /\ Len(calls) >= 2) =>
          /\ Closes = 1
          /\ calls[Len(calls)] = "f.Close"
          /\ calls[2] = "ioutil.ReadAll"
    /\ (pc = "done" /\ Len(calls) < 2) => Closes = 0

\* Read returned on a validation failure, and the stream is released.
C9_Witness ==
    /\ pc = "done"
    /\ calls = <<"os.Open", "ioutil.ReadAll", "yaml.Unmarshal", "validate", "f.Close">>
    /\ ret.err # <<>>
    /\ ~fopen

\* The message of the first broken rule of the extended variant, in the
\* order missing fields, TLS conflict, port, timeout; "" when none is.
FirstBroken(c) ==
    CASE EmptyRequired(c, "extended") # <<>> -> "missing fields: %s"
      [] EmptyRequired(c, "extended") = <<>>
            /\ c.DNSName # "" /\ (c.TLSCert # "" \/ c.TLSKey # "") ->
         "cannot specify both DNS name for Let's Encrypt and TLS keys at the same time"
      [] EmptyRequired(c, "extended") = <<>>
            /\ c.DNSName # "" /\ c.TLSCert = "" /\ c.TLSKey = "" /\ c.Port # 443 ->
         "cannot use a port different than 443 with Let's Encrypt"
      [] EmptyRequired(c, "extended") = <<>> /\ ~BreaksLetsEncrypt(c)
            /\ c.SessionTimeout < 0 ->
         "cannot specify a negative session timeout"
      [] OTHER -> ""

\* C10: validate of the extended variant returns one error, that of the
\* first broken rule in the order missing fields, TLS conflict, port,
\* timeout, and returns nil exactly when no rule is broken.
C10_Precedence ==
    (ValidateRan /\ variant = "extended") =>
        /\ Len(err) <= 1
        /\ (err = <<>>) <=> (FirstBroken(config) = "")
        /\ err # <<>> => err[1].fmt = FirstBroken(config)

\* The three cross-field rules are broken at once: the conflict is reported.
C10_Witness ==
    /\ ValidateRan
    /\ variant = "extended"
    /\ EmptyRequired(config, variant) = <<>>
    /\ config.DNSName # ""
    /\ config.TLSCert # ""
    /\ config.Port # 443
    /\ config.SessionTimeout < 0
    /\ err = NewError(ErrTLSConflict, <<>>)

====
